---- MODULE Spec2Model ----
(***************************************************************************)
(* Record Identity & Reconciliation Engine of traq.                        *)
(*                                                                         *)
(*   DataMerger            (common/data_ingestion/data_merger.py)          *)
(*   DerivOneDeduplicator  (common/scripts/derivone_deduplicator.py)       *)
(*                                                                         *)
(* A record is identified by its original row label.  Both classes get     *)
(* their DataFrames from DataReader.read_csv_data, which ends in           *)
(* pd.concat(..., ignore_index=True), so the labels of a dataset of n      *)
(* records are 0 .. n-1.  Labels and positions are 0-based as in pandas;   *)
(* TLA+ sequences are 1-based, so position p of a frame is element p+1.    *)
(***************************************************************************)
EXTENDS Integers, Sequences, FiniteSets, TLC

\* ------------------------------------------------------------------ bounds
MaxLeft == 3
MaxRight == 2
MaxKeys == 3
MaxRows == 2
MaxChunk == 2
MaxKeyGenRows == 2

\* ------------------------------------------------------- shared primitives
\* A string is a sequence of characters; a missing cell (NaN / None) is the
\* one-element sequence holding the token "NaN", which no string contains.
NaN == <<"NaN">>
\* the absent half of an output row (all its fields are NaN)
NoRec == -1

\* values a join column can hold: the empty string, a missing cell and two
\* distinct identifiers
KeyValues == {<<>>, NaN, <<"a">>, <<"b">>}

RECURSIVE SetToSortedSeq(_)
SetToSortedSeq(S) ==
    IF S = {} THEN <<>>
    ELSE LET m == CHOOSE x \in S : \A y \in S : x <= y
         IN <<m>> \o SetToSortedSeq(S \ {m})

RECURSIVE Flatten(_)
Flatten(frames) ==
    IF frames = <<>> THEN <<>> ELSE Head(frames) \o Flatten(Tail(frames))

Range(s) == {s[i] : i \in DOMAIN s}
IsUnique(s) == \A i, j \in DOMAIN s : i # j => s[i] # s[j]

\* ---------------------------------------------------------------- state
VARIABLES
    pc,                     \* position inside merge_data
    return_type,            \* argument of merge_data
    len_left,               \* len(self.df_left)
    len_right,              \* len(self.df_right)
    on_keys_len,            \* len(self.on_keys_list)
    key_pos,                \* 1-based position of the for loop in on_keys_list
    left_matched_indices,
    right_matched_indices,
    matched_dfs,            \* list of frames, a frame is a sequence of rows
    result,                 \* the frame merge_data returns
    joined,                 \* history: every pair pd.merge returned in a completed pass
    bad_key_pos,            \* position in on_keys_list of the first key pair
                            \* that names a column its dataset lacks, 0 if none
    df_columns,             \* the column names of the caller's two frames:
                            \* "original" or "prefixed"
    error,                  \* the exception merge_data raised, "none" if none
    log,                    \* the records _process_matches wrote with
                            \* self.logger.info: key pair and count
    dd_pc,                  \* position inside DerivOneDeduplicator.remove_duplicates
    asset_class,            \* self.asset_class
    has_party1_lei,         \* self.party1_lei_col in self.data.columns
    data,                   \* self.data, a sequence of rows
    data_in,                \* history: self.data as passed to the constructor
    chunk_size,             \* window of create_deduplication_key (100000 in the
                            \* source, scaled down to 1 .. MaxChunk rows)
    start_idx,              \* loop variable of create_deduplication_key
    dedup_keys,             \* the pre-allocated Series, filled chunk by chunk
    data_columns,           \* self.data.columns, in order
    kg_pc,                  \* position of the caller of DerivOneKeyGenerator
    kg_asset_class,         \* self.asset_class
    kg_columns,             \* self.data.columns, as a set of names
    kg_data,                \* self.data: a sequence of rows, a row maps the
                            \* names of the columns to cells
    kg_data_in,             \* history: the dataset before the first run
    kg_first,               \* history: the dataset the first run returned
    kg_run,                 \* 1 for the first run, 2 for the run on its output
    kg_error,               \* the column names the KeyError message lists
    pl_pc,                  \* position inside the function that prepares the
                            \* DerivOne dataset
    pl_entry,               \* that function: "process_derivone" or
                            \* "read_derivone_data"
    pl_asset_class,         \* asset_class
    pl_data,                \* df_derivone / data
    pl_data_in,             \* history: the dataset as read from the files
    pl_stages,              \* history: the stages that ran to completion
    pl_error                \* the exception the function raised, "none" if none

mergeVars == <<pc, return_type, len_left, len_right, on_keys_len, key_pos,
               left_matched_indices, right_matched_indices, matched_dfs,
               result, joined, bad_key_pos, df_columns, error, log>>
dedupVars == <<dd_pc, asset_class, has_party1_lei, data, data_in, chunk_size,
               start_idx, dedup_keys, data_columns>>
keygenVars == <<kg_pc, kg_asset_class, kg_columns, kg_data, kg_data_in,
                kg_first, kg_run, kg_error>>
pipelineVars == <<pl_pc, pl_entry, pl_asset_class, pl_data, pl_data_in,
                  pl_stages, pl_error>>
vars == <<mergeVars, dedupVars, keygenVars, pipelineVars>>

ReturnTypes == {"left", "right", "inner", "full"}

\* the variables of a component that is not running
MergeIdle ==
    /\ pc = "idle"
    /\ return_type = "full"
    /\ len_left = 0
    /\ len_right = 0
    /\ on_keys_len = 0
    /\ key_pos = 1
    /\ left_matched_indices = {}
    /\ right_matched_indices = {}
    /\ matched_dfs = <<>>
    /\ result = <<>>
    /\ joined = {}
    /\ bad_key_pos = 0
    /\ df_columns = "original"
    /\ error = "none"
    /\ log = <<>>
DedupIdle ==
    /\ dd_pc = "idle"
    /\ asset_class = "none"
    /\ has_party1_lei = FALSE
    /\ data = <<>>
    /\ data_in = <<>>
    /\ chunk_size = 1
    /\ start_idx = 0
    /\ dedup_keys = <<>>
    /\ data_columns = <<>>
KeyGenIdle ==
    /\ kg_pc = "idle"
    /\ kg_asset_class = "none"
    /\ kg_columns = {}
    /\ kg_data = <<>>
    /\ kg_data_in = <<>>
    /\ kg_first = <<>>
    /\ kg_run = 1
    /\ kg_error = <<>>
PipelineIdle ==
    /\ pl_pc = "idle"
    /\ pl_entry = "none"
    /\ pl_asset_class = "none"
    /\ pl_data = <<>>
    /\ pl_data_in = <<>>
    /\ pl_stages = <<>>
    /\ pl_error = "none"

\* ------------------------------------------------------- pandas operations
\* df[~df.index.isin(matched)] : labels of the rows kept, in frame order
Unmatched(n, matched) == SetToSortedSeq({i \in 0 .. n - 1 : i \notin matched})

\* pd.merge(left[[key]].reset_index(), right[[key]].reset_index(), how='inner'):
\* one row per pair of positions whose key values are equal; pandas joins
\* equal strings (the empty string included) and joins NaN with NaN.
InnerMerge(lcol, rcol) ==
    LET m == Len(rcol)
        codes == {c \in 0 .. Len(lcol) * m - 1 :
                     lcol[(c \div m) + 1] = rcol[(c % m) + 1]}
        s == SetToSortedSeq(codes)
    IN [i \in 1 .. Len(s) |-> [index_x |-> s[i] \div m, index_y |-> s[i] % m]]

\* pd.concat([a, b], axis=1) on the row labels ix of a and iy of b.
\*   equal label sequences      : rows are combined position by position
\*   different, both unique     : outer join on the labels
\*   different, a duplicate     : InvalidIndexError
\* The result holds the [x, y] label pairs of the rows (NoRec for the half
\* a label is absent from), or raised = TRUE for the error.
ConcatAxis1(ix, iy) ==
    IF ix = iy
    THEN [raised |-> FALSE,
          rows |-> [i \in 1 .. Len(ix) |-> [x |-> ix[i], y |-> iy[i]]]]
    ELSE IF IsUnique(ix) /\ IsUnique(iy)
    THEN LET extra == SelectSeq(iy, LAMBDA u : u \notin Range(ix))
             lab == ix \o extra
         IN [raised |-> FALSE,
             rows |-> [i \in 1 .. Len(lab) |->
                [x |-> IF lab[i] \in Range(ix) THEN lab[i] ELSE NoRec,
                 y |-> IF lab[i] \in Range(iy) THEN lab[i] ELSE NoRec]]]
    ELSE [raised |-> TRUE, rows |-> <<>>]

\* _process_matches on the re-indexed pools temp_left / temp_right (given as
\* the original labels of their rows) and the two key columns of the pools.
ProcessMatches(temp_left, temp_right, lcol, rcol) ==
    LET merge_result == InnerMerge(lcol, rcol)
        index_x == [i \in DOMAIN merge_result |-> merge_result[i].index_x]
        index_y == [i \in DOMAIN merge_result |-> merge_result[i].index_y]
        concat == ConcatAxis1(index_x, index_y)
        cc == concat.rows
    IN IF merge_result = <<>>
       THEN [raised |-> FALSE, index_x |-> <<>>, index_y |-> <<>>,
             matched_data |-> <<>>]
       ELSE IF concat.raised
       THEN [raised |-> TRUE, index_x |-> index_x, index_y |-> index_y,
             matched_data |-> <<>>]
       ELSE [raised |-> FALSE, index_x |-> index_x, index_y |-> index_y,
             matched_data |->
                [i \in DOMAIN cc |->
                    [left  |-> IF cc[i].x = NoRec THEN NoRec
                               ELSE temp_left[cc[i].x + 1],
                     right |-> IF cc[i].y = NoRec THEN NoRec
                               ELSE temp_right[cc[i].y + 1],
                     lkey  |-> IF cc[i].x = NoRec THEN NaN
                               ELSE lcol[cc[i].x + 1],
                     rkey  |-> IF cc[i].y = NoRec THEN NaN
                               ELSE rcol[cc[i].y + 1],
                     matching_flag |-> "matched"]]]

\* merge_data lines 113-131: the left_only frame
LeftOnlyFrame(left_unmatched) ==
    LET right_empty == [i \in 1 .. Len(left_unmatched) |-> i - 1]
        cc == ConcatAxis1(left_unmatched, right_empty).rows
    IN [i \in DOMAIN cc |->
           [left |-> cc[i].x, right |-> NoRec, lkey |-> NaN, rkey |-> NaN,
            matching_flag |-> "left_only"]]

\* merge_data lines 133-139: the right_only frame
RightOnlyFrame(right_unmatched) ==
    [i \in DOMAIN right_unmatched |->
        [left |-> NoRec, right |-> right_unmatched[i], lkey |-> NaN,
         rkey |-> NaN, matching_flag |-> "right_only"]]

\* merge_data lines 113-131: the return of line 127
EarlyReturn(rt) ==
    /\ rt \in {"left", "full"}
    /\ Unmatched(len_left, left_matched_indices) = <<>>
    /\ matched_dfs = <<>>

\* merge_data lines 107-152 for return type rt, from the state the loop left
MergeResult(rt) ==
    LET left_unmatched == Unmatched(len_left, left_matched_indices)
        right_unmatched == Unmatched(len_right, right_matched_indices)
        with_left ==
            IF rt \in {"left", "full"} /\ left_unmatched # <<>>
            THEN Append(matched_dfs, LeftOnlyFrame(left_unmatched))
            ELSE matched_dfs
        with_right ==
            IF rt \in {"right", "full"} /\ right_unmatched # <<>>
            THEN Append(with_left, RightOnlyFrame(right_unmatched))
            ELSE with_left
    IN IF EarlyReturn(rt) THEN <<>> ELSE Flatten(with_right)

\* ------------------------------------------------------------- DataMerger
\* The state after DataMerger.__init__, called with non-empty prefixes as
\* merge_datasets does: lines 29-30 have renamed the columns of the two
\* frames the caller passed.
MergeInit ==
    /\ pc = "loop"
    /\ return_type \in ReturnTypes \cup {"outer"}
    /\ len_left \in 0 .. MaxLeft
    /\ len_right \in 0 .. MaxRight
    /\ on_keys_len \in 0 .. MaxKeys
    /\ key_pos = 1
    /\ left_matched_indices = {}
    /\ right_matched_indices = {}
    /\ matched_dfs = <<>>
    /\ result = <<>>
    /\ joined = {}
    /\ bad_key_pos \in 0 .. on_keys_len
    /\ df_columns = "prefixed"
    /\ error = "none"
    /\ log = <<>>
    /\ DedupIdle
    /\ KeyGenIdle
    /\ PipelineIdle

\* merge_data lines 72-74
RaiseInvalidReturnType ==
    /\ pc = "loop"
    /\ return_type \notin ReturnTypes
    /\ pc' = "raised"
    /\ error' = "ValueError"
    /\ UNCHANGED <<return_type, len_left, len_right, on_keys_len, key_pos,
                   left_matched_indices, right_matched_indices, matched_dfs,
                   result, joined, bad_key_pos, df_columns, log>>
    /\ UNCHANGED dedupVars
    /\ UNCHANGED keygenVars
    /\ UNCHANGED pipelineVars

\* An iteration of the for loop whose key pair names a column that one of
\* the frames lacks: df_left[[left_key]] of line 46 (or df_right[[right_key]]
\* of line 47) raises KeyError.
KeyPairMissing ==
    /\ pc = "loop"
    /\ return_type \in ReturnTypes
    /\ key_pos <= on_keys_len
    /\ key_pos = bad_key_pos
    /\ Unmatched(len_left, left_matched_indices) # <<>>
    /\ Unmatched(len_right, right_matched_indices) # <<>>
    /\ pc' = "raised"
    /\ error' = "KeyError"
    /\ UNCHANGED <<return_type, len_left, len_right, on_keys_len, key_pos,
                   left_matched_indices, right_matched_indices, matched_dfs,
                   result, joined, bad_key_pos, df_columns, log>>
    /\ UNCHANGED dedupVars
    /\ UNCHANGED keygenVars
    /\ UNCHANGED pipelineVars

\* One iteration of the for loop of merge_data (lines 82-105) that does not
\* break.  A pass reads nothing of the two datasets but the key column of
\* its key pair, and only for the rows still in the pools, so these two
\* columns are the inputs of the pass; two passes may draw the same values,
\* which covers key pairs that share a column.  The rows of merge_result are
\* taken in (index_x, index_y) order; with another order the same rows come
\* out in another order.
KeyPairPass ==
    /\ pc = "loop"
    /\ return_type \in ReturnTypes
    /\ key_pos <= on_keys_len
    /\ key_pos # bad_key_pos
    /\ LET temp_left == Unmatched(len_left, left_matched_indices)
           temp_right == Unmatched(len_right, right_matched_indices)
       IN /\ temp_left # <<>>
          /\ temp_right # <<>>
          /\ \E lcol \in [1 .. Len(temp_left) -> KeyValues],
                rcol \in [1 .. Len(temp_right) -> KeyValues] :
               LET pm == ProcessMatches(temp_left, temp_right, lcol, rcol)
               IN IF pm.raised
                  THEN /\ pc' = "raised"
                       /\ error' = "InvalidIndexError"
                       /\ UNCHANGED <<key_pos, left_matched_indices,
                                      right_matched_indices, matched_dfs,
                                      joined, log>>
                  ELSE /\ pc' = "loop"
                       /\ error' = error
                       /\ key_pos' = key_pos + 1
                       /\ IF pm.matched_data # <<>>
                          THEN /\ matched_dfs' = Append(matched_dfs, pm.matched_data)
                               /\ log' = Append(log, [key |-> key_pos,
                                                      count |-> Len(pm.index_x)])
                               /\ left_matched_indices' =
                                    left_matched_indices \cup Range(pm.index_x)
                               /\ right_matched_indices' =
                                    right_matched_indices \cup Range(pm.index_y)
                          ELSE UNCHANGED <<matched_dfs, left_matched_indices,
                                           right_matched_indices, log>>
                       /\ joined' = joined \cup
                            {[key |-> key_pos,
                              left |-> temp_left[pm.index_x[i] + 1],
                              right |-> temp_right[pm.index_y[i] + 1],
                              lkey |-> lcol[pm.index_x[i] + 1],
                              rkey |-> rcol[pm.index_y[i] + 1]] :
                                 i \in DOMAIN pm.index_x}
    /\ UNCHANGED <<return_type, len_left, len_right, on_keys_len, result,
                   bad_key_pos, df_columns>>
    /\ UNCHANGED dedupVars
    /\ UNCHANGED keygenVars
    /\ UNCHANGED pipelineVars

\* the loop is over (list exhausted, or the break of line 88) and lines
\* 107-152 build the frame that is returned
AssembleResult ==
    /\ pc = "loop"
    /\ return_type \in ReturnTypes
    /\ \/ key_pos > on_keys_len
       \/ Unmatched(len_left, left_matched_indices) = <<>>
       \/ Unmatched(len_right, right_matched_indices) = <<>>
    /\ result' = MergeResult(return_type)
    /\ df_columns' = IF EarlyReturn(return_type) THEN df_columns ELSE "original"
    /\ pc' = "done"
    /\ UNCHANGED <<return_type, len_left, len_right, on_keys_len, key_pos,
                   left_matched_indices, right_matched_indices, matched_dfs,
                   joined, bad_key_pos, error, log>>
    /\ UNCHANGED dedupVars
    /\ UNCHANGED keygenVars
    /\ UNCHANGED pipelineVars

MergeNext ==
    RaiseInvalidReturnType \/ KeyPairMissing \/ KeyPairPass \/ AssembleResult

Spec == MergeInit /\ [][MergeNext]_vars

\* ------------------------------------------------ DataMerger: the claims
EmptyValues == {<<>>, NaN}
JoinedLeft == {j.left : j \in joined}
JoinedRight == {j.right : j \in joined}
RowsOfLeft(l) == {i \in DOMAIN result : result[i].left = l}
RowsOfRight(r) == {i \in DOMAIN result : result[i].right = r}
TagsOf(rt) ==
    CASE rt = "left" -> {"matched", "left_only"}
      [] rt = "right" -> {"matched", "right_only"}
      [] rt = "inner" -> {"matched"}
      [] rt = "full" -> {"matched", "left_only", "right_only"}

\* C1: in full mode every primary and every reference record is in exactly
\* one row of the output: a record that joined only in a matched row, a
\* record that never joined only in a left_only / right_only row.
C1_EveryRecordExactlyOnce ==
    (pc = "done" /\ return_type = "full") =>
        /\ \A l \in 0 .. len_left - 1 :
              /\ Cardinality(RowsOfLeft(l)) = 1
              /\ \A i \in RowsOfLeft(l) :
                    result[i].matching_flag =
                        IF l \in JoinedLeft THEN "matched" ELSE "left_only"
        /\ \A r \in 0 .. len_right - 1 :
              /\ Cardinality(RowsOfRight(r)) = 1
              /\ \A i \in RowsOfRight(r) :
                    result[i].matching_flag =
                        IF r \in JoinedRight THEN "matched" ELSE "right_only"

\* C2: over a whole run of merge_data no record is in more than one of the
\* pairs the equality joins returned.
C2_AtMostOneMatch ==
    pc = "done" =>
        \A j1, j2 \in joined :
            (j1.left = j2.left \/ j1.right = j2.right) => j1 = j2

\* C3: no pair returned by an equality join has an empty (empty-string or
\* missing) join value.
C3_EmptyKeyNeverJoins ==
    pc = "done" => \A j \in joined : j.lkey \notin EmptyValues

\* C4: every pair returned by an equality join is exactly one matched row
\* of the output that holds both records of the pair.
C4_JoinedPairInOneRow ==
    pc = "done" =>
        \A j \in joined :
            Cardinality({i \in DOMAIN result :
                            /\ result[i].matching_flag = "matched"
                            /\ result[i].left = j.left
                            /\ result[i].right = j.right}) = 1

\* C5: a left_only row holds a primary record that took part in no join and
\* no reference record; a right_only row holds a reference record that took
\* part in no join.
C5_OneSidedRowsAreUnjoinedRecords ==
    pc = "done" =>
        \A i \in DOMAIN result :
            /\ result[i].matching_flag = "left_only" =>
                  /\ result[i].left \in (0 .. len_left - 1) \ JoinedLeft
                  /\ result[i].right = NoRec
            /\ result[i].matching_flag = "right_only" =>
                  /\ result[i].right \in (0 .. len_right - 1) \ JoinedRight
                  /\ result[i].left = NoRec

\* C6: the output in mode left / right / inner / full is the full-mode
\* output restricted to the rows whose tag the mode selects.
C6_ModeSelectsRowsOfFull ==
    pc = "done" =>
        result = SelectSeq(MergeResult("full"),
                           LAMBDA row : row.matching_flag \in TagsOf(return_type))

\* C7: the number of output rows is the number of joined pairs, plus the
\* never-joined primary records in modes left and full, plus the
\* never-joined reference records in modes right and full.
C7_RowCount ==
    pc = "done" =>
        Len(result) =
            Cardinality(joined)
            + (IF return_type \in {"left", "full"}
               THEN Cardinality((0 .. len_left - 1) \ JoinedLeft) ELSE 0)
            + (IF return_type \in {"right", "full"}
               THEN Cardinality((0 .. len_right - 1) \ JoinedRight) ELSE 0)

\* --------------------------------------------------- DerivOneDeduplicator
EQUITY_DERIVATIVES == "equity_derivatives"
EQUITY_SWAPS == "equity_swaps"
AssetClasses == {EQUITY_DERIVATIVES, EQUITY_SWAPS, "other"}
IsEquity(ac) == ac \in {EQUITY_DERIVATIVES, EQUITY_SWAPS}

\* cell values of the identifier columns: missing, empty, whitespace-only,
\* padded and plain identifiers, some shared between columns
HutiValues == {NaN, <<" ">>, <<"x">>}
UtiValues == {<<>>, <<"x">>, <<"y", " ">>}
UsiValues == {NaN, <<" ", "y">>}
UtiPrefixValues == {NaN, <<"P">>}
UsiPrefixValues == {<<"Q">>}
Party1LeiValues == {NaN, <<"L">>}

\* the rows a dataset of the asset class can hold; a column the asset
\* class's branch never reads is left missing
RowValues(ac, has_lei) ==
    [huti : HutiValues, uti : UtiValues, usi : UsiValues,
     uti_prefix : IF IsEquity(ac) THEN UtiPrefixValues ELSE {NaN},
     usi_prefix : IF IsEquity(ac) THEN UsiPrefixValues ELSE {NaN},
     party1_lei : IF ~IsEquity(ac) /\ has_lei THEN Party1LeiValues ELSE {NaN}]

\* .fillna('')
FillNa(c) == IF c = NaN THEN <<>> ELSE c

\* .str.strip()
RECURSIVE LStrip(_)
LStrip(str) ==
    IF str # <<>> /\ Head(str) = " " THEN LStrip(Tail(str)) ELSE str
RECURSIVE RStrip(_)
RStrip(str) ==
    IF str # <<>> /\ str[Len(str)] = " "
    THEN RStrip(SubSeq(str, 1, Len(str) - 1)) ELSE str
Strip(str) == RStrip(LStrip(str))

\* character codes, for the ordering of the category values
CharCode(ch) ==
    CASE ch = " " -> 32
      [] ch = "-" -> 45
      [] ch = "A" -> 65
      [] ch = "B" -> 66
      [] ch = "L" -> 76
      [] ch = "P" -> 80
      [] ch = "Q" -> 81
      [] ch = "T" -> 84
      [] ch = "a" -> 97
      [] ch = "b" -> 98
      [] ch = "l" -> 108
      [] ch = "missing_placeholder" -> 109
      [] ch = "t" -> 116
      [] ch = "x" -> 120
      [] ch = "y" -> 121
      [] ch = "z" -> 122
      [] OTHER -> 48 + (CHOOSE d \in 0 .. 9 : ToString(d) = ch)

RECURSIVE StrLess(_, _)
StrLess(a, b) ==
    IF b = <<>> THEN FALSE
    ELSE IF a = <<>> THEN TRUE
    ELSE IF Head(a) = Head(b) THEN StrLess(Tail(a), Tail(b))
    ELSE CharCode(Head(a)) < CharCode(Head(b))

RECURSIVE SortStrings(_)
SortStrings(S) ==
    IF S = {} THEN <<>>
    ELSE LET m == CHOOSE x \in S : \A y \in S : y = x \/ StrLess(x, y)
         IN <<m>> \o SortStrings(S \ {m})

\* ScannedValue with the two first candidates swapped
ScannedValueUtiFirst(row) ==
    LET huti_value == Strip(FillNa(row.huti))
        uti_value == Strip(FillNa(row.uti))
        usi_value == Strip(FillNa(row.usi))
    IN IF uti_value # <<>> THEN uti_value
       ELSE IF huti_value # <<>> THEN huti_value
       ELSE usi_value

\* create_deduplication_key lines 40-47: the first non-empty of the
\* stripped Harmonized UTI value, UTI Value, USI Value
ScannedValue(row) ==
    LET huti_value == Strip(FillNa(row.huti))
        uti_value == Strip(FillNa(row.uti))
        usi_value == Strip(FillNa(row.usi))
    IN IF huti_value # <<>> THEN huti_value
       ELSE IF uti_value # <<>> THEN uti_value
       ELSE usi_value

\* KeyPrefix with the equity prefix taken from the column that goes with
\* the candidate the scan selected
KeyPrefixOfScannedCandidate(row, ac, has_lei) ==
    IF IsEquity(ac)
    THEN IF Strip(FillNa(row.huti)) # <<>> \/ Strip(FillNa(row.uti)) # <<>>
         THEN FillNa(row.uti_prefix) ELSE FillNa(row.usi_prefix)
    ELSE IF has_lei THEN FillNa(row.party1_lei) ELSE <<>>

\* create_deduplication_key lines 58-69: what is put in front of the key
KeyPrefix(row, ac, has_lei) ==
    IF IsEquity(ac)
    THEN IF Strip(FillNa(row.huti)) # <<>>
         THEN FillNa(row.uti_prefix) ELSE FillNa(row.usi_prefix)
    ELSE IF has_lei THEN FillNa(row.party1_lei) ELSE <<>>

\* ChunkKeys with the placeholders numbered from 1 in every chunk
ChunkKeysLocalRank(chunk, start, ac, has_lei) ==
    LET scanned == [i \in DOMAIN chunk |-> ScannedValue(chunk[i])]
        rank(i) == Cardinality({j \in 1 .. i : scanned[j] = <<>>})
        chunk_key(i) ==
            IF scanned[i] = <<>>
            THEN <<"missing_placeholder", ToString(rank(i))>>
            ELSE scanned[i]
    IN [i \in DOMAIN chunk |-> KeyPrefix(chunk[i], ac, has_lei) \o chunk_key(i)]

\* create_deduplication_key lines 40-69 on one chunk that starts at start
ChunkKeys(chunk, start, ac, has_lei) ==
    LET scanned == [i \in DOMAIN chunk |-> ScannedValue(chunk[i])]
        rank(i) == Cardinality({j \in 1 .. i : scanned[j] = <<>>})
        chunk_key(i) ==
            IF scanned[i] = <<>>
            THEN <<"missing_placeholder", ToString(start + rank(i))>>
            ELSE scanned[i]
    IN [i \in DOMAIN chunk |-> KeyPrefix(chunk[i], ac, has_lei) \o chunk_key(i)]

\* UniqueIndices with the groups formed inside each window of chunk_size rows
UniqueIndicesPerWindow(keys) ==
    SetToSortedSeq({l \in 0 .. Len(keys) - 1 :
        \A l2 \in 0 .. l - 1 :
            (l2 \div chunk_size = l \div chunk_size) => keys[l2 + 1] # keys[l + 1]})

\* UniqueIndices with the first labels in label order, as drop_duplicates
\* would give them
UniqueIndicesInputOrder(keys) ==
    SetToSortedSeq({l \in 0 .. Len(keys) - 1 :
        \A l2 \in 0 .. l - 1 : keys[l2 + 1] # keys[l + 1]})

\* UniqueIndices without the grouping: every label is kept
UniqueIndicesKeepAll(keys) == [i \in DOMAIN keys |-> i - 1]

\* UniqueIndices with .last() in place of .first()
UniqueIndicesLast(keys) ==
    LET cats == SortStrings(Range(keys))
    IN [c \in DOMAIN cats |->
           CHOOSE l \in 0 .. Len(keys) - 1 :
               /\ keys[l + 1] = cats[c]
               /\ \A l2 \in 0 .. Len(keys) - 1 : keys[l2 + 1] = cats[c] => l2 <= l]

\* remove_duplicates lines 98-103: per category, in category order, the
\* first label of the group
UniqueIndices(keys) ==
    LET cats == SortStrings(Range(keys))
    IN [c \in DOMAIN cats |->
           CHOOSE l \in 0 .. Len(keys) - 1 :
               /\ keys[l + 1] = cats[c]
               /\ \A l2 \in 0 .. Len(keys) - 1 : keys[l2 + 1] = cats[c] => l <= l2]

\* the columns create_deduplication_key reads, in the order of the dataset
IdentifierColumns ==
    <<"huti", "uti", "usi", "uti_prefix", "usi_prefix", "party1_lei">>

\* AddKeyColumn with the Harmonized UTI cells stored as they were stripped
\* for the scan
AddKeyColumnStripped(rows, keys) ==
    [i \in DOMAIN rows |->
        [ordinal |-> rows[i].ordinal,
         huti |-> Strip(FillNa(rows[i].huti)), uti |-> rows[i].uti,
         usi |-> rows[i].usi,
         uti_prefix |-> rows[i].uti_prefix,
         usi_prefix |-> rows[i].usi_prefix,
         party1_lei |-> rows[i].party1_lei,
         deduplication_key |-> keys[i]]]

\* create_deduplication_key lines 77-86: the column is added to the rows
AddKeyColumn(rows, keys) ==
    [i \in DOMAIN rows |->
        [ordinal |-> rows[i].ordinal,
         huti |-> rows[i].huti, uti |-> rows[i].uti,
         usi |-> rows[i].usi,
         uti_prefix |-> rows[i].uti_prefix,
         usi_prefix |-> rows[i].usi_prefix,
         party1_lei |-> rows[i].party1_lei,
         deduplication_key |-> keys[i]]]

\* create_deduplication_key on every chunk of rows
RECURSIVE AllChunkKeys(_, _, _, _, _)
AllChunkKeys(rows, start, size, ac, has_lei) ==
    IF start >= Len(rows) THEN <<>>
    ELSE LET end_idx == IF start + size < Len(rows)
                        THEN start + size ELSE Len(rows)
         IN ChunkKeys(SubSeq(rows, start + 1, end_idx), start, ac, has_lei)
               \o AllChunkKeys(rows, start + size, size, ac, has_lei)

\* ExistingKeys with the test of line 92 failing: the keys are derived again
ExistingKeysRecreated(rows) ==
    AllChunkKeys(rows, 0, chunk_size, asset_class, has_party1_lei)

\* remove_duplicates lines 92-93 on a dataset that has the column: the
\* keys are those of the column
ExistingKeys(rows) == [i \in DOMAIN rows |-> rows[i].deduplication_key]

DedupInit ==
    /\ dd_pc = "create_key"
    /\ asset_class \in AssetClasses
    /\ has_party1_lei \in BOOLEAN
    /\ IsEquity(asset_class) => has_party1_lei = FALSE
    /\ chunk_size \in 1 .. MaxChunk
    /\ \E n \in 0 .. MaxRows :
          \E cells \in [1 .. n -> RowValues(asset_class, has_party1_lei)] :
             data = [i \in 1 .. n |->
                        [ordinal |-> i - 1,
                         huti |-> cells[i].huti, uti |-> cells[i].uti,
                         usi |-> cells[i].usi,
                         uti_prefix |-> cells[i].uti_prefix,
                         usi_prefix |-> cells[i].usi_prefix,
                         party1_lei |-> cells[i].party1_lei]]
    /\ data_in = data
    /\ start_idx = 0
    /\ dedup_keys = <<>>
    /\ data_columns = IdentifierColumns
    /\ MergeIdle
    /\ KeyGenIdle
    /\ PipelineIdle

\* one iteration of the chunk loop of create_deduplication_key (lines 34-75)
ProcessChunk ==
    /\ dd_pc = "create_key"
    /\ start_idx < Len(data)
    /\ LET end_idx == IF start_idx + chunk_size < Len(data)
                      THEN start_idx + chunk_size ELSE Len(data)
           chunk == SubSeq(data, start_idx + 1, end_idx)
       IN dedup_keys' = dedup_keys \o
               ChunkKeys(chunk, start_idx, asset_class, has_party1_lei)
    /\ start_idx' = start_idx + chunk_size
    /\ UNCHANGED <<dd_pc, asset_class, has_party1_lei, data, data_in, chunk_size,
                   data_columns>>
    /\ UNCHANGED mergeVars
    /\ UNCHANGED keygenVars
    /\ UNCHANGED pipelineVars

\* the chunk loop is over: the column is added (lines 77-86) and
\* remove_duplicates keeps one row per key (lines 95-114)
RemoveDuplicates ==
    /\ dd_pc = "create_key"
    /\ start_idx >= Len(data)
    /\ LET keyed == AddKeyColumn(data, dedup_keys)
           unique_indices == UniqueIndices(dedup_keys)
       IN data' = [i \in DOMAIN unique_indices |-> keyed[unique_indices[i] + 1]]
    /\ data_columns' = Append(data_columns, "deduplication_key")
    /\ dd_pc' = "done"
    /\ UNCHANGED <<asset_class, has_party1_lei, data_in, chunk_size, start_idx,
                   dedup_keys>>
    /\ UNCHANGED mergeVars
    /\ UNCHANGED keygenVars
    /\ UNCHANGED pipelineVars

\* remove_duplicates lines 95-107 on rows that carry these keys
KeepFirstOfEachKey(rows, keys) ==
    LET unique_indices == UniqueIndices(keys)
    IN [i \in DOMAIN unique_indices |-> rows[unique_indices[i] + 1]]

\* the state after a second DerivOneDeduplicator has been constructed on
\* the dataset that the run() of a first one returned
RerunInit ==
    /\ dd_pc = "done"
    /\ asset_class \in AssetClasses
    /\ has_party1_lei \in BOOLEAN
    /\ IsEquity(asset_class) => has_party1_lei = FALSE
    /\ chunk_size \in 1 .. MaxChunk
    /\ \E n \in 0 .. MaxRows :
          \E cells \in [1 .. n -> RowValues(asset_class, has_party1_lei)] :
             data_in = [i \in 1 .. n |->
                           [ordinal |-> i - 1,
                            huti |-> cells[i].huti, uti |-> cells[i].uti,
                            usi |-> cells[i].usi,
                            uti_prefix |-> cells[i].uti_prefix,
                            usi_prefix |-> cells[i].usi_prefix,
                            party1_lei |-> cells[i].party1_lei]]
    /\ dedup_keys = AllChunkKeys(data_in, 0, chunk_size, asset_class,
                                 has_party1_lei)
    /\ data = KeepFirstOfEachKey(AddKeyColumn(data_in, dedup_keys), dedup_keys)
    /\ start_idx = chunk_size * ((Len(data_in) + chunk_size - 1) \div chunk_size)
    /\ data_columns = Append(IdentifierColumns, "deduplication_key")
    /\ MergeIdle
    /\ KeyGenIdle
    /\ PipelineIdle

\* run() of the second deduplicator: the column exists,
\* create_deduplication_key is skipped (lines 92-93) and lines 95-114 run on
\* the column's values
RemoveDuplicatesAgain ==
    /\ dd_pc = "done"
    /\ LET keys == ExistingKeys(data)
           unique_indices == UniqueIndices(keys)
       IN data' = [i \in DOMAIN unique_indices |->
                      [data[unique_indices[i] + 1] EXCEPT
                          !.deduplication_key = keys[unique_indices[i] + 1]]]
    /\ dd_pc' = "done_again"
    /\ UNCHANGED <<asset_class, has_party1_lei, data_in, chunk_size, start_idx,
                   dedup_keys, data_columns>>
    /\ UNCHANGED mergeVars
    /\ UNCHANGED keygenVars
    /\ UNCHANGED pipelineVars

DedupNext == ProcessChunk \/ RemoveDuplicates

DedupSpec == DedupInit /\ [][DedupNext]_vars

RerunNext == RemoveDuplicatesAgain

RerunSpec == RerunInit /\ [][RerunNext]_vars

\* ------------------------------------------ DerivOneDeduplicator: the claims
Survivors == {data[i].ordinal : i \in DOMAIN data}
IdentityGroup(k) == {l \in 0 .. Len(dedup_keys) - 1 : dedup_keys[l + 1] = k}

\* C8: after remove_duplicates no two distinct surviving records share a
\* deduplication_key, and every identity group of the input has exactly one
\* survivor.
C8_OneSurvivorPerIdentity ==
    dd_pc = "done" =>
        /\ \A i, j \in DOMAIN data :
              i # j => data[i].deduplication_key # data[j].deduplication_key
        /\ \A k \in Range(dedup_keys) :
              Cardinality({i \in DOMAIN data :
                              data[i].ordinal \in IdentityGroup(k)}) = 1

\* two input records formed one identity group and one of them is left
C8_Witness ==
    /\ dd_pc = "done"
    /\ Len(data_in) = 2
    /\ dedup_keys[1] = dedup_keys[2]
    /\ Len(data) = 1

\* C9: the survivor of every identity group is its record with the lowest
\* original ordinal position; every other record of the group is dropped.
C9_LowestOrdinalSurvives ==
    dd_pc = "done" =>
        \A l \in 0 .. Len(data_in) - 1 :
            l \in Survivors <=>
                \A l2 \in IdentityGroup(dedup_keys[l + 1]) : l <= l2

\* a group of two records, found through different columns, whose first
\* record is the one kept
C9_Witness ==
    /\ dd_pc = "done"
    /\ \E l1, l2 \in 0 .. Len(data_in) - 1 :
          /\ l1 < l2
          /\ dedup_keys[l1 + 1] = dedup_keys[l2 + 1]
          /\ Strip(FillNa(data_in[l1 + 1].huti)) = <<>>
          /\ Strip(FillNa(data_in[l2 + 1].huti)) # <<>>
          /\ l1 \in Survivors
          /\ l2 \notin Survivors

\* a cell that counts as empty: missing, or nothing but whitespace
IsEmptyCell(c) == c = NaN \/ \A i \in DOMAIN c : c[i] = " "
Candidates(row) == <<row.huti, row.uti, row.usi>>

\* C10: for a record with a non-empty candidate, the value the key is built
\* from is that of the first non-empty candidate in the order Harmonized UTI
\* value, UTI Value, USI Value; missing and whitespace-only cells are empty.
C10_FirstNonEmptyCandidate ==
    \A l \in 1 .. Len(dedup_keys) :
        LET cand == Candidates(data_in[l])
        IN \A f \in 1 .. 3 :
              (/\ ~IsEmptyCell(cand[f])
               /\ \A g \in 1 .. f - 1 : IsEmptyCell(cand[g]))
              => dedup_keys[l] =
                    KeyPrefix(data_in[l], asset_class, has_party1_lei)
                        \o Strip(cand[f])

\* a record keyed by its USI Value because its Harmonized UTI value is
\* whitespace-only and its UTI Value is the empty string
C10_Witness ==
    /\ dd_pc = "done"
    /\ \E l \in 1 .. Len(dedup_keys) :
          /\ data_in[l].huti = <<" ">>
          /\ data_in[l].uti = <<>>
          /\ data_in[l].usi = <<" ", "y">>
          /\ dedup_keys[l] =
                KeyPrefix(data_in[l], asset_class, has_party1_lei) \o <<"y">>

\* a record whose three candidate identity cells are all empty
AllCandidatesEmpty(row) ==
    \A f \in 1 .. 3 : IsEmptyCell(Candidates(row)[f])

\* C11: two records whose candidates are all empty get different
\* deduplication keys, whatever their chunks and prefixes, and both are
\* among the survivors.
C11_PlaceholdersDistinct ==
    \A l1, l2 \in 0 .. Len(dedup_keys) - 1 :
        (/\ l1 # l2
         /\ AllCandidatesEmpty(data_in[l1 + 1])
         /\ AllCandidatesEmpty(data_in[l2 + 1]))
        => /\ dedup_keys[l1 + 1] # dedup_keys[l2 + 1]
           /\ dd_pc = "done" => l1 \in Survivors /\ l2 \in Survivors

\* two all-empty records with the same prefix, keyed in different chunks,
\* that both survive
C11_Witness ==
    /\ dd_pc = "done"
    /\ chunk_size = 1
    /\ Len(data_in) = 2
    /\ AllCandidatesEmpty(data_in[1])
    /\ AllCandidatesEmpty(data_in[2])
    /\ KeyPrefix(data_in[1], asset_class, has_party1_lei)
          = KeyPrefix(data_in[2], asset_class, has_party1_lei)
    /\ Len(data) = 2

\* the first non-empty candidate of a row, stripped, as the claims on the
\* shape of the key describe it
FirstNonEmpty(row) ==
    LET cand == Candidates(row)
        f == CHOOSE n \in 1 .. 3 :
                /\ ~IsEmptyCell(cand[n])
                /\ \A g \in 1 .. n - 1 : IsEmptyCell(cand[g])
    IN Strip(cand[f])

\* the identity of each input record when the whole dataset is one window
SingleWindowKeys == ChunkKeys(data_in, 0, asset_class, has_party1_lei)

\* C25: the records that survive are those that survive when the identities
\* are derived in a single window over the whole dataset: the first record
\* of each identity, wherever in the dataset its duplicates lie.
C25_WindowSizeIrrelevant ==
    dd_pc = "done"
    => LET keys == SingleWindowKeys
       IN Survivors =
             {l \in 0 .. Len(data_in) - 1 :
                 \A l2 \in 0 .. l - 1 : keys[l2 + 1] # keys[l + 1]}

\* two records with the same identity in different windows, of which the
\* first alone is left
C25_Witness ==
    /\ dd_pc = "done"
    /\ chunk_size = 1
    /\ Len(data_in) = 2
    /\ ~AllCandidatesEmpty(data_in[1])
    /\ SingleWindowKeys[1] = SingleWindowKeys[2]
    /\ Survivors = {0}

\* C26: a surviving record holds in every input column the value it held in
\* the input, the columns are the input columns in their order followed by
\* deduplication_key, and that column holds the identity derived for the
\* record.
C26_SurvivorsUnchanged ==
    dd_pc = "done"
    => /\ data_columns = IdentifierColumns \o <<"deduplication_key">>
       /\ \A i \in DOMAIN data :
             LET src == data_in[data[i].ordinal + 1]
             IN /\ DOMAIN data[i] = DOMAIN src \cup {"deduplication_key"}
                /\ \A c \in DOMAIN src : data[i][c] = src[c]
                /\ data[i].deduplication_key = dedup_keys[data[i].ordinal + 1]

\* a survivor whose Harmonized UTI cell is whitespace, in a dataset that
\* lost a record
C26_Witness ==
    /\ dd_pc = "done"
    /\ Len(data) = 1
    /\ Len(data_in) = 2
    /\ data[1].huti = <<" ">>
    /\ data[1].deduplication_key # <<>>

\* C28: for the two equity classes the key is the UTI Prefix of the record
\* when its Harmonized UTI value is non-empty and its USI Prefix otherwise,
\* followed by the scanned value or, when every candidate is empty, by the
\* placeholder.
C28_EquityPrefixByHuti ==
    IsEquity(asset_class)
    => \A l \in 1 .. Len(dedup_keys) :
          LET row == data_in[l]
              prefix == IF IsEmptyCell(row.huti)
                        THEN (IF row.usi_prefix = NaN THEN <<>>
                              ELSE row.usi_prefix)
                        ELSE (IF row.uti_prefix = NaN THEN <<>>
                              ELSE row.uti_prefix)
              rest == SubSeq(dedup_keys[l], Len(prefix) + 1, Len(dedup_keys[l]))
          IN /\ SubSeq(dedup_keys[l], 1, Len(prefix)) = prefix
             /\ IF AllCandidatesEmpty(row)
                THEN Len(rest) = 2 /\ rest[1] = "missing_placeholder"
                ELSE rest = FirstNonEmpty(row)

\* an equity record keyed by its UTI Value under its USI Prefix
C28_Witness ==
    /\ dd_pc = "done"
    /\ IsEquity(asset_class)
    /\ \E l \in 1 .. Len(dedup_keys) :
          /\ IsEmptyCell(data_in[l].huti)
          /\ data_in[l].uti = <<"x">>
          /\ data_in[l].uti_prefix = <<"P">>
          /\ dedup_keys[l] = <<"Q", "x">>

\* C29: the survivors are returned in ascending order of deduplication_key,
\* so two survivors are in their input order exactly when the key of the
\* earlier input record is the smaller one.
C29_OrderedByKey ==
    dd_pc = "done"
    => \A i, j \in DOMAIN data :
          /\ i < j
             => StrLess(data[i].deduplication_key, data[j].deduplication_key)
          /\ data[i].ordinal < data[j].ordinal
             => (i < j <=> StrLess(dedup_keys[data[i].ordinal + 1],
                                   dedup_keys[data[j].ordinal + 1]))

\* two survivors returned in the reverse of their input order
C29_Witness ==
    /\ dd_pc = "done"
    /\ Len(data) = 2
    /\ data[1].ordinal = 1
    /\ data[2].ordinal = 0

\* C30: a second run of the deduplicator, on the dataset the first run
\* returned, returns that dataset: the same records in the same order with
\* the same deduplication_key values and columns.
C30_Idempotent ==
    [][(dd_pc = "done" /\ dd_pc' = "done_again")
       => (data' = data /\ data_columns' = data_columns)]_vars

\* a second run has returned two survivors that the first run had put in
\* key order, one of them keyed by a placeholder
C30_Witness ==
    /\ dd_pc = "done_again"
    /\ Len(data) = 2
    /\ data[1].ordinal = 1
    /\ AllCandidatesEmpty(data_in[2])

\* --------------------------------------------------- DerivOneKeyGenerator
\* The Harmonized UTI column names come from upstream_attribute_mappings,
\* per asset class; one pair of names stands for them.
BaseRequiredColumns ==
    <<"USI Prefix", "USI Value", "UTI Prefix", "UTI Value",
      "Harmonized UTI Prefix", "Harmonized UTI Value">>

\* __init__ lines 36-44
RequiredColumns(ac) ==
    IF IsEquity(ac) THEN BaseRequiredColumns
    ELSE Append(BaseRequiredColumns, "Party1 LEI")

KeyColumns ==
    {"matching_key_usi", "matching_key_uti", "matching_key_huti",
     "matching_key_usi_value", "matching_key_uti_value"}

\* the columns of a complete input file: the identifier columns, Party1 LEI
\* and a column the generator has no use for
InputColumns == Range(BaseRequiredColumns) \cup {"Party1 LEI", "Trade Id"}

\* the columns an input file may lack
MissableColumns == {"USI Value", "UTI Prefix", "Party1 LEI"}

\* the rows of a complete input file: cells that are missing, padded, in
\* lower or upper case, with or without separators
FullRows ==
    {("USI Prefix" :> a) @@ ("USI Value" :> b) @@ ("UTI Prefix" :> c)
        @@ ("UTI Value" :> d) @@ ("Harmonized UTI Prefix" :> <<"a">>)
        @@ ("Harmonized UTI Value" :> e) @@ ("Party1 LEI" :> f)
        @@ ("Trade Id" :> <<"t", " ">>) :
        a \in {NaN, <<" ", "a">>}, b \in {<<"b", "-">>, <<"B">>},
        c \in {<<>>, <<"A", " ">>}, d \in {<<"-", "1">>},
        e \in {NaN, <<"1", " ">>}, f \in {<<"l">>, <<"L", "-">>}}

\* .str.upper() with .swapcase() in its place
UpperSwapCase(str) ==
    [i \in DOMAIN str |->
        CASE str[i] = "a" -> "A" [] str[i] = "b" -> "B" [] str[i] = "l" -> "L"
          [] str[i] = "t" -> "T" [] str[i] = "A" -> "a" [] str[i] = "B" -> "b"
          [] str[i] = "L" -> "l" [] str[i] = "T" -> "t" [] OTHER -> str[i]]

\* .str.upper()
Upper(str) ==
    [i \in DOMAIN str |->
        CASE str[i] = "a" -> "A" [] str[i] = "b" -> "B" [] str[i] = "l" -> "L"
          [] str[i] = "t" -> "T" [] OTHER -> str[i]]

\* the characters the pattern [^A-Z0-9] keeps
KeptByPattern == {"A", "B", "L", "T", "1"}

\* clean_columns lines 71-76 on one cell
CleanCell(c) == Upper(Strip(FillNa(c)))

\* generate_keys lines 135-138 without the str.replace
NormalizeKeyUpperOnly(str) == Upper(str)

\* generate_keys lines 135-138 on one key
NormalizeKey(str) == Upper(SelectSeq(str, LAMBDA ch : ch \in KeptByPattern))

\* validate_columns with the search stopped at the first missing column
MissingColumnsFirstOnly(columns, ac) ==
    LET all == SelectSeq(RequiredColumns(ac), LAMBDA c : c \notin columns)
    IN IF all = <<>> THEN <<>> ELSE <<Head(all)>>

\* validate_columns line 59
MissingColumns(columns, ac) ==
    SelectSeq(RequiredColumns(ac), LAMBDA c : c \notin columns)

\* generate_keys with the equity branch taken for every asset class
KeyQualifierNone(row, ac) == <<>>

\* generate_keys lines 89-127: what the else branch puts in front of a key
KeyQualifier(row, ac) == IF IsEquity(ac) THEN <<>> ELSE row["Party1 LEI"]

\* generate_keys lines 89-138 on one row
MatchingKeys(row, ac) ==
    LET q == KeyQualifier(row, ac)
    IN ("matching_key_usi" :>
            NormalizeKey(q \o row["USI Prefix"] \o row["USI Value"]))
       @@ ("matching_key_uti" :>
            NormalizeKey(q \o row["UTI Prefix"] \o row["UTI Value"]))
       @@ ("matching_key_huti" :>
            NormalizeKey(q \o row["Harmonized UTI Prefix"]
                           \o row["Harmonized UTI Value"]))
       @@ ("matching_key_usi_value" :> NormalizeKey(q \o row["USI Value"]))
       @@ ("matching_key_uti_value" :> NormalizeKey(q \o row["UTI Value"]))

\* clean_columns lines 71-76 on one row
CleanRow(row, ac) ==
    [c \in DOMAIN row |->
        IF c \in Range(RequiredColumns(ac)) THEN CleanCell(row[c]) ELSE row[c]]

KeyGenInit ==
    /\ kg_pc = "new"
    /\ kg_asset_class \in AssetClasses
    /\ kg_columns \in {InputColumns \ missing : missing \in SUBSET MissableColumns}
    /\ \E n \in 0 .. MaxKeyGenRows :
          \E rows \in [1 .. n -> FullRows] :
             kg_data = [i \in 1 .. n |-> [c \in kg_columns |-> rows[i][c]]]
    /\ kg_data_in = kg_data
    /\ kg_first = <<>>
    /\ kg_run = 1
    /\ kg_error = <<>>
    /\ MergeIdle
    /\ DedupIdle
    /\ PipelineIdle

\* DerivOneKeyGenerator(asset_class, data, ...): __init__ lines 35-52
KgConstruct ==
    /\ kg_pc = "new"
    /\ LET missing_columns == MissingColumns(kg_columns, kg_asset_class)
       IN IF missing_columns # <<>>
          THEN /\ kg_pc' = "raised"
               /\ kg_error' = missing_columns
               /\ UNCHANGED kg_data
          ELSE /\ kg_pc' = "constructed"
               /\ kg_data' = [i \in DOMAIN kg_data |->
                                 CleanRow(kg_data[i], kg_asset_class)]
               /\ UNCHANGED kg_error
    /\ UNCHANGED <<kg_asset_class, kg_columns, kg_data_in, kg_first, kg_run>>
    /\ UNCHANGED <<mergeVars, dedupVars, pipelineVars>>

\* generate_keys lines 81-145
KgGenerateKeys ==
    /\ kg_pc = "constructed"
    /\ kg_pc' = "generated"
    /\ kg_data' = [i \in DOMAIN kg_data |->
                      MatchingKeys(kg_data[i], kg_asset_class) @@ kg_data[i]]
    /\ kg_columns' = kg_columns \cup KeyColumns
    /\ kg_first' = IF kg_run = 1 THEN kg_data' ELSE kg_first
    /\ UNCHANGED <<kg_asset_class, kg_data_in, kg_run, kg_error>>
    /\ UNCHANGED <<mergeVars, dedupVars, pipelineVars>>

\* the returned dataset is handed to a second DerivOneKeyGenerator
KgRerun ==
    /\ kg_pc = "generated"
    /\ kg_run = 1
    /\ kg_pc' = "new"
    /\ kg_run' = 2
    /\ UNCHANGED <<kg_asset_class, kg_columns, kg_data, kg_data_in, kg_first,
                   kg_error>>
    /\ UNCHANGED <<mergeVars, dedupVars, pipelineVars>>

KeyGenNext == KgConstruct \/ KgGenerateKeys \/ KgRerun

KeyGenSpec == KeyGenInit /\ [][KeyGenNext]_vars

\* ---------------------------------------------- claims on the key generator
\* the identifier fields a key is built from, in order
IdentifierSources(k) ==
    CASE k = "matching_key_usi" -> <<"USI Prefix", "USI Value">>
      [] k = "matching_key_uti" -> <<"UTI Prefix", "UTI Value">>
      [] k = "matching_key_huti" ->
            <<"Harmonized UTI Prefix", "Harmonized UTI Value">>
      [] k = "matching_key_usi_value" -> <<"USI Value">>
      [] k = "matching_key_uti_value" -> <<"UTI Value">>

KeySources(k, ac) ==
    IF IsEquity(ac) THEN IdentifierSources(k)
    ELSE <<"Party1 LEI">> \o IdentifierSources(k)

\* a field value reduced to its upper-case letters and digits
Canon(c) ==
    LET filled == IF c = NaN THEN <<>> ELSE c
        up == [i \in DOMAIN filled |->
                 CASE filled[i] = "a" -> "A" [] filled[i] = "b" -> "B"
                   [] filled[i] = "l" -> "L" [] filled[i] = "t" -> "T"
                   [] OTHER -> filled[i]]
    IN SelectSeq(up, LAMBDA ch : ch \in {"A", "B", "L", "T", "1"})

CanonConcat(row, cols) == Flatten([i \in DOMAIN cols |-> Canon(row[cols[i]])])

\* C12: a second run of the Key Generator on the dataset the first run
\* returned gives every record the same five keys as the first run did.
C12_RerunKeepsKeys ==
    (kg_pc = "generated" /\ kg_run = 2)
    => /\ Len(kg_data) = Len(kg_first)
       /\ \A i \in DOMAIN kg_data : \A k \in KeyColumns :
             kg_data[i][k] = kg_first[i][k]

C12_Witness ==
    /\ kg_pc = "generated"
    /\ kg_run = 2
    /\ Len(kg_data) >= 1
    /\ kg_data_in[1]["USI Prefix"] = <<" ", "a">>
    /\ kg_first[1]["matching_key_usi"] = <<"A", "B">>

\* C13: every generated key is the concatenation of its source fields, each
\* trimmed and upper-cased, with the characters outside A-Z and 0-9 removed;
\* a key holds only such characters, and two records whose source fields
\* differ only in case, surrounding whitespace or other characters get the
\* same key.
C13_KeysAreNormalised ==
    kg_pc = "generated"
    => \A i \in DOMAIN kg_data : \A k \in KeyColumns :
          LET srcs == KeySources(k, kg_asset_class)
          IN /\ kg_data[i][k] = CanonConcat(kg_data_in[i], srcs)
             /\ Range(kg_data[i][k]) \subseteq {"A", "B", "L", "T", "1"}
             /\ \A j \in DOMAIN kg_data :
                   (\A n \in DOMAIN srcs :
                       Canon(kg_data_in[i][srcs[n]])
                           = Canon(kg_data_in[j][srcs[n]]))
                   => kg_data[i][k] = kg_data[j][k]

C13_Witness ==
    /\ kg_pc = "generated"
    /\ Len(kg_data) = 2
    /\ kg_data_in[1]["USI Prefix"] = <<" ", "a">>
    /\ kg_data_in[2]["USI Prefix"] = <<" ", "a">>
    /\ kg_data_in[1]["USI Value"] = <<"b", "-">>
    /\ kg_data_in[2]["USI Value"] = <<"B">>
    /\ IsEquity(kg_asset_class)
    /\ kg_data[1]["matching_key_usi"] = kg_data[2]["matching_key_usi"]
    /\ Len(kg_data[1]["matching_key_usi"]) >= 2

\* C14 (as stated): once the generator has been constructed, and after it has
\* generated the keys, every field of the input holds the value it held
\* before, for every record, and the records are those of the input in order.
C14_InputFieldsUnchanged ==
    kg_pc \in {"constructed", "generated"}
    => /\ Len(kg_data) = Len(kg_data_in)
       /\ \A i \in DOMAIN kg_data_in : \A c \in DOMAIN kg_data_in[i] :
             kg_data[i][c] = kg_data_in[i][c]

\* C15: when required fields are absent the construction fails with one
\* error that lists every absent required field and nothing else, no cell
\* has been cleaned and no key exists; a dataset that lacks a required field
\* never gets past construction.
C15_MissingFieldsReported ==
    LET absent == Range(RequiredColumns(kg_asset_class)) \ kg_columns
    IN /\ kg_pc = "raised"
          => /\ kg_error # <<>>
             /\ IsUnique(kg_error)
             /\ Range(kg_error) = absent
             /\ kg_data = kg_data_in
             /\ kg_columns \cap KeyColumns = {}
       /\ absent # {} => kg_pc \in {"new", "raised"}

C15_Witness ==
    /\ kg_pc = "raised"
    /\ Len(kg_error) = 2
    /\ Len(kg_data) >= 1
    /\ kg_data[1]["USI Prefix"] = <<" ", "a">>

\* C16: the asset class alone fixes the shape of the keys. For the equity
\* classes Party1 LEI is not required (its absence is never reported) and a
\* key is built from the identifier fields only; for the other classes
\* Party1 LEI is required and its normalised value starts each of the five
\* keys, followed by what the equity shape would hold.
C16_AssetClassFixesShape ==
    /\ kg_pc = "generated"
       => \A i \in DOMAIN kg_data : \A k \in KeyColumns :
             LET body == CanonConcat(kg_data_in[i], IdentifierSources(k))
             IN IF IsEquity(kg_asset_class)
                THEN kg_data[i][k] = body
                ELSE /\ "Party1 LEI" \in kg_columns
                     /\ kg_data[i][k]
                           = Canon(kg_data_in[i]["Party1 LEI"]) \o body
    /\ (kg_pc = "raised" /\ IsEquity(kg_asset_class))
       => \A n \in DOMAIN kg_error : kg_error[n] # "Party1 LEI"
    /\ (~IsEquity(kg_asset_class) /\ "Party1 LEI" \notin kg_columns)
       => kg_pc \in {"new", "raised"}

C16_Witness ==
    /\ kg_pc = "generated"
    /\ ~IsEquity(kg_asset_class)
    /\ Len(kg_data) >= 1
    /\ kg_data_in[1]["Party1 LEI"] = <<"L", "-">>
    /\ kg_data_in[1]["USI Value"] = <<"B">>
    /\ kg_data[1]["matching_key_usi_value"] = <<"L", "B">>

\* ------------------------------------- claims on the matcher's error paths
\* C17 (as stated): with an empty key-pair list, or a list that names an
\* absent column, merge_data never returns a frame: it fails, and it fails
\* before a single key-pair pass has run.
C17_BadKeyListFailsUpFront ==
    (on_keys_len = 0 \/ bad_key_pos > 0)
    => /\ pc # "done"
       /\ pc = "raised" => (key_pos = 1 /\ joined = {} /\ matched_dfs = <<>>)

\* C22 (as stated): every key-pair pass that has run to its end has left
\* exactly one record in the log, and the record holds the number of pairs
\* the pass joined, zero included.
C22_EveryPassReported ==
    \A k \in 1 .. key_pos - 1 :
        /\ Cardinality({i \in DOMAIN log : log[i].key = k}) = 1
        /\ \A i \in DOMAIN log :
              log[i].key = k
              => log[i].count = Cardinality({j \in joined : j.key = k})

\* C23 (as stated): whenever the loop is about to offer the pools to a join,
\* the pools hold exactly the records no earlier pass has joined.
C23_PoolsAreTheUnconsumed ==
    (pc = "loop" /\ key_pos <= on_keys_len)
    => /\ Range(Unmatched(len_left, left_matched_indices))
             = (0 .. len_left - 1) \ JoinedLeft
       /\ Range(Unmatched(len_right, right_matched_indices))
             = (0 .. len_right - 1) \ JoinedRight

\* C24 (as stated): once every record of one dataset has been joined, no
\* further key-pair pass runs: the position in the key-pair list, the joined
\* pairs and the matched frames stay as they are, so the output is the one
\* the remaining key pairs would also give.
C24_NoPassOncePoolConsumed ==
    [][(/\ pc = "loop"
        /\ \/ JoinedLeft = 0 .. len_left - 1
           \/ JoinedRight = 0 .. len_right - 1)
       => /\ key_pos' = key_pos
          /\ joined' = joined
          /\ matched_dfs' = matched_dfs]_vars

\* C18 (as stated): with one dataset empty merge_data does not raise, and in
\* full mode it returns exactly one row per record of the other dataset,
\* tagged left_only when the reference dataset is the empty one and
\* right_only when the primary dataset is.
C18_EmptySideGivesOneSidedRows ==
    (return_type = "full" /\ (len_left = 0) # (len_right = 0))
    => /\ pc # "raised"
       /\ pc = "done"
          => /\ Len(result) = len_left + len_right
             /\ \A l \in 0 .. len_left - 1 :
                   \E i \in DOMAIN result :
                      /\ result[i].left = l
                      /\ result[i].matching_flag = "left_only"
             /\ \A r \in 0 .. len_right - 1 :
                   \E i \in DOMAIN result :
                      /\ result[i].right = r
                      /\ result[i].matching_flag = "right_only"

\* C19 (as stated): when merge_data has finished, by a return or by an
\* exception, the two frames the caller passed carry the column names they
\* had before the DataMerger was constructed.
C19_InputsUnchanged ==
    pc \in {"done", "raised"} => df_columns = "original"

\* ------------------------------ claims on the shape of the dedup identity
\* the qualifier the configuration declares for the asset class
DeclaredQualifier(row, ac, has_lei) ==
    IF ~IsEquity(ac) /\ has_lei
    THEN (IF row.party1_lei = NaN THEN <<>> ELSE row.party1_lei)
    ELSE <<>>

\* C20 (as stated): the identity of a record is its scanned value (or its
\* placeholder) with the Party1 LEI in front for the classes that have this
\* qualifier, and with nothing in front for the two equity classes.
C20_IdentityQualifiedLikeKeys ==
    \A l \in 1 .. Len(dedup_keys) :
        LET q == DeclaredQualifier(data_in[l], asset_class, has_party1_lei)
            key == dedup_keys[l]
            body == SubSeq(key, Len(q) + 1, Len(key))
        IN /\ Len(key) >= Len(q)
           /\ SubSeq(key, 1, Len(q)) = q
           /\ IF AllCandidatesEmpty(data_in[l])
              THEN Len(body) = 2 /\ body[1] = "missing_placeholder"
              ELSE \E f \in 1 .. 3 :
                      /\ ~IsEmptyCell(Candidates(data_in[l])[f])
                      /\ \A g \in 1 .. f - 1 :
                            IsEmptyCell(Candidates(data_in[l])[g])
                      /\ body = Strip(Candidates(data_in[l])[f])

\* ------------------------------------ the preparation of the DerivOne dataset
\* process_derivone (diagnostic_main.py) and
\* IntermediateDerivOneGenerator.read_derivone_data both read the files and
\* hand the dataset to the Key Generator and to the Deduplicator.
PipelineEntries == {"process_derivone", "read_derivone_data"}

\* the cells create_deduplication_key reads in a row of the dataset
IdentifierCells(row) ==
    [huti |-> row["Harmonized UTI Value"], uti |-> row["UTI Value"],
     usi |-> row["USI Value"], uti_prefix |-> row["UTI Prefix"],
     usi_prefix |-> row["USI Prefix"], party1_lei |-> row["Party1 LEI"]]

\* DerivOneDeduplicator(...).run() on a dataset that fits in one chunk of
\* 100000 rows and has no deduplication_key column
RunDeduplicator(rows, ac) ==
    LET keys == ChunkKeys([i \in DOMAIN rows |-> IdentifierCells(rows[i])],
                          0, ac, ~IsEquity(ac))
        unique_indices == UniqueIndices(keys)
    IN [i \in DOMAIN unique_indices |->
           ("deduplication_key" :> keys[unique_indices[i] + 1])
               @@ rows[unique_indices[i] + 1]]

\* DerivOneKeyGenerator(...).generate_keys() on a dataset that has every
\* required column
RunKeyGenerator(rows, ac) ==
    [i \in DOMAIN rows |->
        MatchingKeys(CleanRow(rows[i], ac), ac) @@ CleanRow(rows[i], ac)]

\* the state after the files have been read (process_derivone lines 180-185,
\* read_derivone_data line 81)
PipelineInit ==
    /\ pl_pc = "read"
    /\ pl_entry \in PipelineEntries
    /\ pl_asset_class \in AssetClasses
    /\ \E n \in 0 .. MaxKeyGenRows : pl_data \in [1 .. n -> FullRows]
    /\ pl_data_in = pl_data
    /\ pl_stages = <<>>
    /\ pl_error = "none"
    /\ MergeIdle
    /\ DedupIdle
    /\ KeyGenIdle

\* process_derivone lines 189-193
PdDeduplicate ==
    /\ pl_pc = "read"
    /\ pl_entry = "process_derivone"
    /\ pl_data' = RunDeduplicator(pl_data, pl_asset_class)
    /\ pl_stages' = Append(pl_stages, "Deduplicator")
    /\ pl_pc' = "deduplicated"
    /\ UNCHANGED <<pl_entry, pl_asset_class, pl_data_in, pl_error>>
    /\ UNCHANGED <<mergeVars, dedupVars, keygenVars>>

\* process_derivone lines 195-202
PdGenerateKeys ==
    /\ pl_pc = "deduplicated"
    /\ pl_entry = "process_derivone"
    /\ pl_data' = RunKeyGenerator(pl_data, pl_asset_class)
    /\ pl_stages' = Append(pl_stages, "KeyGenerator")
    /\ pl_pc' = "returned"
    /\ UNCHANGED <<pl_entry, pl_asset_class, pl_data_in, pl_error>>
    /\ UNCHANGED <<mergeVars, dedupVars, keygenVars>>

\* read_derivone_data lines 84-95
RdGenerateKeys ==
    /\ pl_pc = "read"
    /\ pl_entry = "read_derivone_data"
    /\ pl_data' = RunKeyGenerator(pl_data, pl_asset_class)
    /\ pl_stages' = Append(pl_stages, "KeyGenerator")
    /\ pl_pc' = "keyed"
    /\ UNCHANGED <<pl_entry, pl_asset_class, pl_data_in, pl_error>>
    /\ UNCHANGED <<mergeVars, dedupVars, keygenVars>>

\* read_derivone_data lines 97-115: the call of line 99 passes
\* log_to_file=False, a keyword DerivOneDeduplicator.__init__ (line 12 of
\* derivone_deduplicator.py) does not take, so the call raises TypeError and
\* the except clause of line 113 re-raises it.
RdDeduplicate ==
    /\ pl_pc = "keyed"
    /\ pl_entry = "read_derivone_data"
    /\ pl_pc' = "raised"
    /\ pl_error' = "TypeError"
    /\ UNCHANGED <<pl_entry, pl_asset_class, pl_data, pl_data_in, pl_stages>>
    /\ UNCHANGED <<mergeVars, dedupVars, keygenVars>>

PipelineNext == PdDeduplicate \/ PdGenerateKeys \/ RdGenerateKeys \/ RdDeduplicate

PipelineSpec == PipelineInit /\ [][PipelineNext]_vars

\* C21 (as stated): in both functions the Deduplicator runs on a dataset
\* only after the Key Generator has run on it.
C21_KeysBeforeDedup ==
    \A i \in DOMAIN pl_stages :
        pl_stages[i] = "Deduplicator"
        => \E j \in 1 .. i - 1 : pl_stages[j] = "KeyGenerator"

\* C27 (as stated): on a dataset that was read and has every required
\* column, read_derivone_data does not raise, and when it has returned the
\* Key Generator and then the Deduplicator have run.
C27_ReadDerivoneDataReturns ==
    pl_entry = "read_derivone_data"
    => /\ pl_pc # "raised"
       /\ pl_pc = "returned" => pl_stages = <<"KeyGenerator", "Deduplicator">>

====
